---- MODULE Spec2Model ----
(***************************************************************************)
(* A model of update_db_generator.py: one run of main(), step by step.     *)
(* Program positions (pc) are named after the source line about to run.    *)
(* The network, the clock and the manifest file found on disk are the      *)
(* run's inputs; each is drawn from a small set.                           *)
(***************************************************************************)
EXTENDS Integers, Sequences, FiniteSets, TLC

(* ------------------------------ bounds -------------------------------- *)
\* longest response body (in bytes) a download may serve
MaxLen == 3
\* most assets a release may list
MaxAssets == 2
\* bytes per chunk (the source streams and hashes in 8192-byte chunks; the
\* model scales the chunk down so that bodies span several chunks)
ChunkSize == 2
\* most calls of save_update_db_to_file_if_changed with one document
MaxCalls == 2

(* --------------------------- program constants ------------------------ *)
GH_REPO_API_URL == "https://api.github.com/repos/bleach86/mister_cloud_saves/releases/latest"
SCRIPT_RAW_URL == "https://raw.githubusercontent.com/bleach86/mister_cloud_saves/refs/heads/main/scripts/cloud_saves.sh"
UPDATE_DB_FILE == "mister_cloud_saves_db.json"
ASSET_NAME == "client.tar.xz"
ScriptPath == "Scripts/cloud_saves.sh"
ClientPath == "cloud_saves/updates/client.tar.xz"
HTTP_OK == 200
EXIT_FAILURE == 1
JSON_INDENT == 4
\* asset.get(...) on a missing key, and a dict.get without default
None == "None"

(* --------------------------- Python values ---------------------------- *)
\* A Python value carries its type as the single field name of a record.
PyInt(n) == [int |-> n]
PyStr(s) == [str |-> s]
PyBool(b) == [bool |-> b]
PyList(s) == [list |-> s]
PyDict(f) == [dict |-> f]
PyNone == [none |-> TRUE]
EmptyDict == PyDict(<< >>)

IsNum(v) == DOMAIN v = {"int"} \/ DOMAIN v = {"bool"}
Num(v) == IF DOMAIN v = {"int"} THEN v.int ELSE IF v.bool THEN 1 ELSE 0

\* mutant: `is` in place of `==` (object identity: a freshly parsed document is
\* never the object just built)
PyIs(a, b) == FALSE

\* mutant: an equality that skips the "timestamp" key of a dict
RECURSIVE PyEqNoTimestamp(_, _)
PyEqNoTimestamp(a, b) ==
    IF IsNum(a) /\ IsNum(b) THEN Num(a) = Num(b)
    ELSE IF DOMAIN a # DOMAIN b THEN FALSE
    ELSE IF "dict" \in DOMAIN a THEN
        /\ DOMAIN a.dict = DOMAIN b.dict
        /\ \A k \in DOMAIN a.dict \ {"timestamp"} : PyEqNoTimestamp(a.dict[k], b.dict[k])
    ELSE IF "list" \in DOMAIN a THEN
        /\ Len(a.list) = Len(b.list)
        /\ \A i \in 1..Len(a.list) : PyEqNoTimestamp(a.list[i], b.list[i])
    ELSE a = b

\* Python's ==: bool is an int (True == 1), dicts and lists compare
\* elementwise, values of other unlike types are unequal.
RECURSIVE PyEqRec(_, _)
PyEqRec(a, b) ==
    IF IsNum(a) /\ IsNum(b) THEN Num(a) = Num(b)
    ELSE IF DOMAIN a # DOMAIN b THEN FALSE
    ELSE IF "dict" \in DOMAIN a THEN
        /\ DOMAIN a.dict = DOMAIN b.dict
        /\ \A k \in DOMAIN a.dict : PyEqRec(a.dict[k], b.dict[k])
    ELSE IF "list" \in DOMAIN a THEN
        /\ Len(a.list) = Len(b.list)
        /\ \A i \in 1..Len(a.list) : PyEqRec(a.list[i], b.list[i])
    ELSE a = b

\* existing_db == update_db
PyEq(a, b) == PyEqRec(a, b)

GetItem(d, k) == d.dict[k]
SetItem(d, k, v) == PyDict((k :> v) @@ d.dict)
\* d.get(k, default) on a response dict (a function on its keys)
Get(d, k, default) == IF k \in DOMAIN d THEN d[k] ELSE default

(* ------------------------------- JSON --------------------------------- *)
\* JSON text is kept as its value tree (object, array, number, string,
\* literal) together with the indentation it was written with; text that is
\* not JSON is [garbage |-> ...].
RECURSIVE JsonEncode(_)
JsonEncode(v) ==
    IF "dict" \in DOMAIN v THEN [object |-> [k \in DOMAIN v.dict |-> JsonEncode(v.dict[k])]]
    ELSE IF "list" \in DOMAIN v THEN [array |-> [i \in 1..Len(v.list) |-> JsonEncode(v.list[i])]]
    ELSE IF "str" \in DOMAIN v THEN [string |-> v.str]
    ELSE IF "int" \in DOMAIN v THEN [number |-> v.int]
    ELSE IF "bool" \in DOMAIN v THEN [literal |-> IF v.bool THEN "true" ELSE "false"]
    ELSE [literal |-> "null"]

RECURSIVE JsonDecode(_)
JsonDecode(j) ==
    IF "object" \in DOMAIN j THEN PyDict([k \in DOMAIN j.object |-> JsonDecode(j.object[k])])
    ELSE IF "array" \in DOMAIN j THEN PyList([i \in 1..Len(j.array) |-> JsonDecode(j.array[i])])
    ELSE IF "string" \in DOMAIN j THEN PyStr(j.string)
    ELSE IF "number" \in DOMAIN j THEN PyInt(j.number)
    ELSE IF j.literal = "true" THEN PyBool(TRUE)
    ELSE IF j.literal = "false" THEN PyBool(FALSE)
    ELSE PyNone

\* json.dump(obj, f, indent=indent): the text written
JsonDump(obj, indent) == [json |-> JsonEncode(obj), indent |-> indent]

JSONDecodeError == [error |-> "JSONDecodeError"]

\* mutant: a guarded load that turns unparseable text into None
JsonLoadGuarded(text) == IF "garbage" \in DOMAIN text THEN PyNone ELSE JsonDecode(text.json)

\* json.load(f): the parsed value, or the error it raises
JsonLoad(text) == IF "garbage" \in DOMAIN text THEN JSONDecodeError ELSE JsonDecode(text.json)

(* ------------------------------- hashing ------------------------------ *)
Byte == {0, 1}
HashMod == 256
HexDigits == <<"0", "1", "2", "3", "4", "5", "6", "7", "8", "9", "a", "b", "c", "d", "e", "f">>

\* hashlib.new(hash_algo): the initial state of the digest
HashNew == 7

RECURSIVE HashUpdate(_, _)
\* hash_func.update(chunk): absorb the chunk's bytes in order
HashUpdate(h, chunk) ==
    IF chunk = << >> THEN h
    ELSE HashUpdate((h * 5 + Head(chunk) + 1) % HashMod, Tail(chunk))

\* hash_func.hexdigest(): lowercase hexadecimal, fixed width
HexDigest(h) == HexDigits[(h \div 16) + 1] \o HexDigits[(h % 16) + 1]

\* f.read(n) at offset pos
ReadChunk(content, pos, n) ==
    SubSeq(content, pos + 1, IF pos + n < Len(content) THEN pos + n ELSE Len(content))

RECURSIVE HashLoop(_, _, _)
\* while chunk := f.read(8192): hash_func.update(chunk)
HashLoop(h, content, pos) ==
    IF ReadChunk(content, pos, ChunkSize) = << >> THEN h
    ELSE HashLoop(HashUpdate(h, ReadChunk(content, pos, ChunkSize)), content, pos + ChunkSize)

compute_file_hash(content) == HexDigest(HashLoop(HashNew, content, 0))

\* os.path.getsize
getsize(content) == Len(content)

(* ------------------------------ the schema ---------------------------- *)
get_update_db_schema ==
    PyDict([v |-> PyInt(1),
            db_id |-> PyStr("mister_cloud_saves"),
            timestamp |-> PyInt(0),
            files |-> PyDict(
                (ScriptPath :> PyDict([size |-> PyInt(0), hash |-> PyStr(""), url |-> PyStr(""),
                                       tags |-> PyList(<<PyInt(1)>>)]))
                @@ (ClientPath :> PyDict([size |-> PyInt(0), hash |-> PyStr(""), url |-> PyStr(""),
                                          reboot |-> PyBool(TRUE),
                                          tags |-> PyList(<<PyInt(0)>>)]))),
            folders |-> PyDict(("Scripts" :> EmptyDict) @@ ("cloud_saves" :> EmptyDict)
                               @@ ("cloud_saves/updates" :> EmptyDict)),
            tags_dictionary |-> PyDict([cloudsaves |-> PyInt(0), scripts |-> PyInt(1)])])

Entry(db, path) == GetItem(GetItem(db, "files"), path)

\* update_db["files"][path][field] = value
SetEntryField(db, path, field, value) ==
    SetItem(db, "files", SetItem(GetItem(db, "files"), path, SetItem(Entry(db, path), field, value)))


\* the lines that fill one entry after its download (94-96, 100-102)
\* mutant: the entry is replaced by a new dict of the three fetched fields
FillEntryFresh(db, path, size, file_hash, url) ==
    SetItem(db, "files", SetItem(GetItem(db, "files"), path,
                                 PyDict([size |-> PyInt(size), hash |-> PyStr(file_hash),
                                         url |-> PyStr(url)])))

\* mutant: size and hash stored under each other's key
FillEntrySwapped(db, path, size, file_hash, url) ==
    SetEntryField(SetEntryField(SetEntryField(db, path, "size", PyStr(file_hash)),
                                path, "hash", PyInt(size)),
                  path, "url", PyStr(url))

FillEntry(db, path, size, file_hash, url) ==
    SetEntryField(SetEntryField(SetEntryField(db, path, "size", PyInt(size)),
                                path, "hash", PyStr(file_hash)),
                  path, "url", PyStr(url))

(* ---------------------------- the environment ------------------------- *)
ClientUrlA == "https://example/client.tar.xz"
ClientUrlB == "https://example/v2/client.tar.xz"
SigUrl == "https://example/client.tar.xz.sha256"

\* asset descriptors a release may list: the expected name under two URLs, a
\* name that only starts like it, one without a name, one without a URL
AssetSet ==
    { [name |-> ASSET_NAME, browser_download_url |-> ClientUrlA],
      [name |-> ASSET_NAME, browser_download_url |-> ClientUrlB],
      [name |-> "client.tar.xz.sha256", browser_download_url |-> SigUrl],
      [browser_download_url |-> SigUrl],
      [name |-> ASSET_NAME] }

AssetLists == UNION { [1..n -> AssetSet] : n \in 0..MaxAssets }

\* bodies of the metadata response: tag_name and assets may each be missing
MetaData ==
    { t @@ a : t \in {<< >>, [tag_name |-> "v1.2.3"]},
               a \in {<< >>} \cup { [assets |-> l] : l \in AssetLists } }

NoResponse == [kind |-> "none"]

\* what requests.get(GH_REPO_API_URL) may give: an exception, a non-200 status,
\* a 200 whose body is not JSON, a 200 with a release document
MetaResponses ==
    { [kind |-> "raise"], [kind |-> "http", status_code |-> 404], [kind |-> "http", status_code |-> HTTP_OK] }
    \cup { [kind |-> "http", status_code |-> HTTP_OK, data |-> d] : d \in MetaData }

Bodies == UNION { [1..n -> Byte] : n \in 0..MaxLen }

\* what requests.get(download_url, stream=True) may give
DownloadResponses ==
    { [kind |-> "raise"], [kind |-> "http", status_code |-> 404, body |-> <<0>>] }
    \cup { [kind |-> "http", status_code |-> HTTP_OK, body |-> b] : b \in Bodies }

\* the clock
Times == {1700000000, 1700000001}

(* ------------------------------- state -------------------------------- *)
VARIABLES
    pc,                  \* the source line about to run, or "exit"
    update_db,           \* generate_update_db's / main's update_db
    client_download_url, \* generate_update_db's local
    response,            \* the running function's response
    ret,                 \* the value a function is returning to its caller
    download_url,        \* get_file_hash_and_size's argument
    caller,              \* which call of get_file_hash_and_size runs: its path key
    tmp_file,            \* the name of the open NamedTemporaryFile, 0 if none
    streamed,            \* bytes of the response body already iterated
    tmpfs,               \* the temporary files that exist: name -> content
    tmp_made,            \* how many temporary files the run created
    requests_log,        \* the requests sent, in order, with their outcome
    disk,                \* the file at UPDATE_DB_FILE
    disk0,               \* that file as the run found it
    disk_pre,            \* that file as the latest save call found it
    save_calls,          \* calls of save_update_db_to_file_if_changed so far
    stdout,              \* the lines printed
    exit_code,           \* the exit status, -1 while running
    raised               \* the exception that ended the run, "" if none

vars == <<pc, update_db, client_download_url, response, ret, download_url, caller, tmp_file,
          streamed, tmpfs, tmp_made, requests_log, disk, disk0, disk_pre, save_calls,
          stdout, exit_code, raised>>

frame == <<response, ret, download_url, caller, tmp_file, streamed>>
outcome == <<stdout, exit_code, raised>>

Absent == [exists |-> FALSE]
File(text) == [exists |-> TRUE, text |-> text]

\* a manifest as a complete run would build it
Manifest(t, sbody, curl, cbody) ==
    SetItem(FillEntry(FillEntry(get_update_db_schema, ScriptPath, getsize(sbody),
                                 compute_file_hash(sbody), SCRIPT_RAW_URL),
                      ClientPath, getsize(cbody), compute_file_hash(cbody), curl),
            "timestamp", PyInt(t))

\* the files a run may find at UPDATE_DB_FILE: none; text that is not JSON;
\* an earlier run's output (same or older timestamp, same or other content);
\* the same document hand-edited (other indentation, reboot written as 1);
\* JSON that is not a manifest
DiskStates ==
    { Absent, File([garbage |-> "<<<<<<< HEAD"]) }
    \cup { File(JsonDump(Manifest(t, <<1>>, ClientUrlA, b), JSON_INDENT)) :
             t \in Times, b \in {<<0>>, <<1>>} }
    \cup { File(JsonDump(Manifest(1700000001, <<1>>, ClientUrlA, <<0>>), 2)),
           File(JsonDump(SetEntryField(Manifest(1700000001, <<1>>, ClientUrlA, <<0>>),
                                       ClientPath, "reboot", PyInt(1)), JSON_INDENT)),
           File(JsonDump(PyList(<< >>), JSON_INDENT)) }

Init ==
    /\ pc = "L85"
    /\ update_db = PyNone
    /\ client_download_url = None
    /\ response = NoResponse
    /\ ret = << >>
    /\ download_url = None
    /\ caller = ""
    /\ tmp_file = 0
    /\ streamed = 0
    /\ tmpfs = << >>
    /\ tmp_made = 0
    /\ requests_log = << >>
    /\ disk \in DiskStates
    /\ disk0 = disk
    /\ disk_pre = disk
    /\ save_calls = 0
    /\ stdout = << >>
    /\ exit_code = -1
    /\ raised = ""


(* ------------------------------ helpers ------------------------------- *)
\* mutant: any status is taken for success
StatusAny(r) == TRUE

\* response.status_code == 200
StatusOk(r) == r.status_code = HTTP_OK

\* mutant: the first asset that has a name at all
FirstNamedAsset(assets) ==
    IF \E i \in 1..Len(assets) : "name" \in DOMAIN assets[i]
    THEN (CHOOSE i \in 1..Len(assets) :
              /\ "name" \in DOMAIN assets[i]
              /\ \A j \in 1..(i - 1) : "name" \notin DOMAIN assets[j])
    ELSE 0

\* for asset in assets: if asset.get("name") == "client.tar.xz": the index the
\* loop stops at, 0 when it runs to the end
FindAsset(assets) ==
    IF \E i \in 1..Len(assets) : Get(assets[i], "name", None) = ASSET_NAME
    THEN (CHOOSE i \in 1..Len(assets) :
              /\ Get(assets[i], "name", None) = ASSET_NAME
              /\ \A j \in 1..(i - 1) : Get(assets[j], "name", None) # ASSET_NAME)
    ELSE 0

\* mutant: NamedTemporaryFile(delete=False): closing keeps the file
CloseTmpKeep(fs, name) == fs

\* leaving `with tempfile.NamedTemporaryFile(delete=True)`: the file is removed
CloseTmp(fs, name) == [k \in DOMAIN fs \ {name} |-> fs[k]]

Logged(url, result, body) == [url |-> url, result |-> result, body |-> body]

\* the run ends: by sys.exit(code) or by an uncaught exception (status 1)
Terminate(code, exc, lines) ==
    /\ pc' = "exit"
    /\ exit_code' = code
    /\ raised' = exc
    /\ stdout' = stdout \o lines

(* ------------------------ generate_update_db -------------------------- *)
\* line 85
L85_Schema ==
    /\ pc = "L85"
    /\ update_db' = get_update_db_schema
    /\ pc' = "L41"
    /\ UNCHANGED <<client_download_url, frame, tmpfs, tmp_made, requests_log, disk, disk0, disk_pre, save_calls, outcome>>

(* ------------------- get_tag_and_latest_release_url ------------------- *)
\* line 41: the metadata request; a transport error or timeout is raised and
\* nothing catches it
L41_Request ==
    /\ pc = "L41"
    /\ \E r \in MetaResponses :
        IF r.kind = "raise"
        THEN /\ requests_log' = Append(requests_log, Logged(GH_REPO_API_URL, "error", << >>))
             /\ Terminate(EXIT_FAILURE, "RequestException", << >>)
             /\ UNCHANGED response
        ELSE /\ requests_log' = Append(requests_log,
                    Logged(GH_REPO_API_URL, IF r.status_code = HTTP_OK THEN "ok" ELSE "status", << >>))
             /\ response' = r
             /\ pc' = "L42"
             /\ UNCHANGED outcome
    /\ UNCHANGED <<update_db, client_download_url, ret, download_url, caller, tmp_file, streamed,
                   tmpfs, tmp_made, disk, disk0, disk_pre, save_calls>>

\* lines 42-51: the status check, the parse, the search, the fall-through
L42_Select ==
    /\ pc = "L42"
    /\ IF StatusOk(response)
       THEN IF "data" \notin DOMAIN response
            THEN \* response.json() raises
                 /\ Terminate(EXIT_FAILURE, "JSONDecodeError", << >>)
                 /\ UNCHANGED ret
            ELSE LET data == response.data
                     tag_name == Get(data, "tag_name", "unknown")
                     assets == Get(data, "assets", << >>)
                     i == FindAsset(assets)
                 IN IF i # 0
                    THEN /\ ret' = <<Get(assets[i], "browser_download_url", None), tag_name>>
                         /\ pc' = "L87"
                         /\ UNCHANGED outcome
                    ELSE /\ Terminate(EXIT_FAILURE, "SystemExit", <<"Error fetching latest release info">>)
                         /\ UNCHANGED ret
       ELSE /\ Terminate(EXIT_FAILURE, "SystemExit", <<"Error fetching latest release info">>)
            /\ UNCHANGED ret
    /\ UNCHANGED <<update_db, client_download_url, response, download_url, caller, tmp_file, streamed,
                   tmpfs, tmp_made, requests_log, disk, disk0, disk_pre, save_calls>>

\* line 87: client_download_url, _ = <returned pair>
L87_Unpack ==
    /\ pc = "L87"
    /\ client_download_url' = ret[1]
    /\ ret' = << >>
    /\ response' = NoResponse
    /\ pc' = "L90"
    /\ UNCHANGED <<update_db, download_url, caller, tmp_file, streamed, tmpfs, tmp_made,
                   requests_log, disk, disk0, disk_pre, save_calls, outcome>>

\* line 90: update_db["timestamp"] = int(time.time())
L90_Timestamp ==
    /\ pc = "L90"
    /\ \E t \in Times : update_db' = SetItem(update_db, "timestamp", PyInt(t))
    /\ pc' = "L93"
    /\ UNCHANGED <<client_download_url, frame, tmpfs, tmp_made, requests_log, disk, disk0, disk_pre, save_calls, outcome>>

(* ----------------------- get_file_hash_and_size ----------------------- *)
\* lines 93 and 99 call it; line 63 opens the temporary file
Call(at, path, url) ==
    /\ pc = at
    /\ caller' = path
    /\ download_url' = url
    /\ tmp_made' = tmp_made + 1
    /\ tmp_file' = tmp_made + 1
    /\ tmpfs' = ((tmp_made + 1) :> << >>) @@ tmpfs
    /\ streamed' = 0
    /\ pc' = "L64"
    /\ UNCHANGED <<update_db, client_download_url, response, ret, requests_log, disk, disk0, disk_pre, save_calls, outcome>>

L93_CallScript == Call("L93", ScriptPath, SCRIPT_RAW_URL)

L99_CallClient == Call("L99", ClientPath, client_download_url)

\* line 64: the download request. A URL of None is refused before anything is
\* sent; a transport error is raised. Either way the with block is left and
\* nothing catches the exception.
L64_Request ==
    /\ pc = "L64"
    /\ IF download_url = None
       THEN /\ Terminate(EXIT_FAILURE, "MissingSchema", << >>)
            /\ tmpfs' = CloseTmp(tmpfs, tmp_file)
            /\ UNCHANGED <<requests_log, response>>
       ELSE \E r \in DownloadResponses :
            IF r.kind = "raise"
            THEN /\ requests_log' = Append(requests_log, Logged(download_url, "error", << >>))
                 /\ Terminate(EXIT_FAILURE, "RequestException", << >>)
                 /\ tmpfs' = CloseTmp(tmpfs, tmp_file)
                 /\ UNCHANGED response
            ELSE /\ requests_log' = Append(requests_log,
                        Logged(download_url, IF r.status_code = HTTP_OK THEN "ok" ELSE "status",
                               r.body))
                 /\ response' = r
                 /\ pc' = "L65"
                 /\ UNCHANGED <<tmpfs, outcome>>
    /\ UNCHANGED <<update_db, client_download_url, ret, download_url, caller, tmp_file, streamed,
                   tmp_made, disk, disk0, disk_pre, save_calls>>

\* lines 65, 73, 74: the status check; sys.exit(1) leaves the with block
L65_Status ==
    /\ pc = "L65"
    /\ IF StatusOk(response)
       THEN /\ pc' = "L66"
            /\ UNCHANGED <<tmpfs, outcome>>
       ELSE /\ Terminate(EXIT_FAILURE, "SystemExit", <<"Error downloading client file">>)
            /\ tmpfs' = CloseTmp(tmpfs, tmp_file)
    /\ UNCHANGED <<update_db, client_download_url, frame, tmp_made, requests_log, disk, disk0, disk_pre, save_calls>>


Min(a, b) == IF a < b THEN a ELSE b

\* lines 66-67: one turn of the loop writes the next chunk to the temporary
\* file; the stream may break and the write may fail, and either exception
\* leaves the with block uncaught
L66_Chunk ==
    /\ pc = "L66"
    /\ streamed < Len(response.body)
    /\ \/ \E n \in 1..Min(ChunkSize, Len(response.body) - streamed) :
            /\ tmpfs' = [tmpfs EXCEPT ![tmp_file] =
                            @ \o SubSeq(response.body, streamed + 1, streamed + n)]
            /\ streamed' = streamed + n
            /\ UNCHANGED <<pc, requests_log, outcome>>
       \/ /\ requests_log' = [requests_log EXCEPT ![Len(requests_log)].result = "error"]
          /\ Terminate(EXIT_FAILURE, "ChunkedEncodingError", << >>)
          /\ tmpfs' = CloseTmp(tmpfs, tmp_file)
          /\ UNCHANGED streamed
       \/ /\ Terminate(EXIT_FAILURE, "OSError", << >>)
          /\ tmpfs' = CloseTmp(tmpfs, tmp_file)
          /\ UNCHANGED <<streamed, requests_log>>
    /\ UNCHANGED <<update_db, client_download_url, response, ret, download_url, caller, tmp_file,
                   tmp_made, disk, disk0, disk_pre, save_calls>>

\* lines 68-71: the stream is exhausted; flush, measure, hash, return (which
\* leaves the with block)
L68_Return ==
    /\ pc = "L66"
    /\ streamed = Len(response.body)
    /\ ret' = <<getsize(tmpfs[tmp_file]), compute_file_hash(tmpfs[tmp_file])>>
    /\ tmpfs' = CloseTmp(tmpfs, tmp_file)
    /\ pc' = IF caller = ScriptPath THEN "L94" ELSE "L100"
    /\ UNCHANGED <<update_db, client_download_url, response, download_url, caller, tmp_file, streamed,
                   tmp_made, requests_log, disk, disk0, disk_pre, save_calls, outcome>>

\* lines 93-96 and 99-102: unpack the returned pair and fill the entry
Fill(at, path, url, next) ==
    /\ pc = at
    /\ update_db' = FillEntry(update_db, path, ret[1], ret[2], url)
    /\ ret' = << >>
    /\ response' = NoResponse
    /\ download_url' = None
    /\ caller' = ""
    /\ tmp_file' = 0
    /\ streamed' = 0
    /\ pc' = next
    /\ UNCHANGED <<client_download_url, tmpfs, tmp_made, requests_log, disk, disk0, disk_pre, save_calls, outcome>>

L94_FillScript == Fill("L94", ScriptPath, SCRIPT_RAW_URL, "L99")

L100_FillClient == Fill("L100", ClientPath, client_download_url, "L104")

\* lines 104 and 156-157: generate_update_db returns, main calls the save
L104_Return ==
    /\ pc = "L104"
    /\ pc' = "L141"
    /\ UNCHANGED <<update_db, client_download_url, frame, tmpfs, tmp_made, requests_log, disk, disk0, disk_pre, save_calls,
                   outcome>>

(* ------------------ save_update_db_to_file_if_changed ----------------- *)
\* lines 141-150; when main called it, main returns and the process exits
\* with status 0
Save(at) ==
    /\ pc = at
    /\ save_calls' = save_calls + 1
    /\ disk_pre' = disk
    /\ LET existing_db == IF disk.exists THEN JsonLoad(disk.text) ELSE PyNone
       IN IF disk.exists /\ "error" \in DOMAIN existing_db
          THEN /\ Terminate(EXIT_FAILURE, existing_db.error, << >>)
               /\ UNCHANGED disk
          ELSE IF disk.exists /\ PyEq(existing_db, update_db)
          THEN /\ Terminate(0, "", <<"No changes detected in the update database.">>)
               /\ UNCHANGED disk
          ELSE /\ disk' = File(JsonDump(update_db, JSON_INDENT))
               /\ Terminate(0, "", <<"Update database saved to " \o UPDATE_DB_FILE \o ".">>)
    /\ UNCHANGED <<update_db, client_download_url, frame, tmpfs, tmp_made, requests_log, disk0>>

\* line 157
save_update_db_to_file_if_changed == Save("L141")

\* the same call made again with the same document, after it returned
SaveAgain ==
    /\ exit_code = 0
    /\ save_calls < MaxCalls
    /\ Save("exit")

Next ==
    \/ L85_Schema
    \/ L41_Request
    \/ L42_Select
    \/ L87_Unpack
    \/ L90_Timestamp
    \/ L93_CallScript
    \/ L64_Request
    \/ L65_Status
    \/ L66_Chunk
    \/ L68_Return
    \/ L94_FillScript
    \/ L99_CallClient
    \/ L100_FillClient
    \/ L104_Return
    \/ save_update_db_to_file_if_changed

Spec == Init /\ [][Next]_vars

\* the run is sequential and nothing blocks it: it keeps taking steps
FairSpec == Spec /\ WF_vars(Next)

\* a run followed by repeated calls of the save with the document it built
NextTwice == Next \/ SaveAgain

SpecTwice == Init /\ [][NextTwice]_vars


(* ============================== claims ================================ *)
LastLine == IF stdout = << >> THEN "" ELSE stdout[Len(stdout)]
NoChangesLine == "No changes detected in the update database."
SavedLine == "Update database saved to mister_cloud_saves_db.json."

\* the latest save call found a file that parses
PreParses == disk_pre.exists /\ "json" \in DOMAIN disk_pre.text
PreParsed == JsonDecode(disk_pre.text.json)

\* C1: when the file the save call finds parses to a document structurally
\* equal to the new one (timestamp included), the call writes nothing: the file
\* is as the call found it, "no changes" is reported and the call returns
\* normally; and a call repeated with the same document always finds it so.
C1_EqualFileNotWritten ==
    /\ (save_calls >= 1 /\ PreParses /\ PreParsed = update_db)
         => /\ disk = disk_pre
            /\ exit_code = 0
            /\ raised = ""
            /\ LastLine = NoChangesLine
    /\ save_calls >= 2 => (disk = disk_pre /\ LastLine = NoChangesLine)

\* a second call in a row, on the file the first call wrote where none was
C1_Witness ==
    /\ save_calls = 2
    /\ disk0 = Absent
    /\ disk = File(JsonDump(update_db, JSON_INDENT))
    /\ stdout = <<SavedLine, NoChangesLine>>

FetchFailed == \E i \in 1..Len(requests_log) : requests_log[i].result # "ok"
AllThreeOk == Len(requests_log) = 3 /\ \A i \in 1..3 : requests_log[i].result = "ok"

\* C3: in a run in which one of the three fetches fails (status or transport),
\* the file stays exactly as the run found it and the run ends with a non-zero
\* exit status; the save is reached only after all three fetches succeeded.
C3_FetchFailureLeavesFile ==
    /\ [](FetchFailed => (disk = disk0 /\ save_calls = 0 /\ (pc = "exit" => exit_code # 0)))
    /\ []((disk # disk0 \/ save_calls > 0) => AllThreeOk)
    /\ (FetchFailed ~> (pc = "exit" /\ exit_code # 0 /\ disk = disk0))

\* the client-archive download answers 404 and the file found is still there
C3_Witness ==
    /\ pc = "exit"
    /\ Len(requests_log) = 3
    /\ requests_log[3].result = "status"
    /\ disk0.exists
    /\ disk = disk0
    /\ exit_code = EXIT_FAILURE

\* ---- C4
\* how a failed metadata request (non-200 status) ends the run: lines 50-51
MetadataFailureOutcome == <<<<"Error fetching latest release info">>, EXIT_FAILURE, "SystemExit">>

\* the run ended on a successful metadata response that lists no client.tar.xz
NoAssetRun ==
    /\ pc = "exit"
    /\ Len(requests_log) = 1
    /\ requests_log[1].result = "ok"
    /\ "data" \in DOMAIN response
    /\ \A i \in 1..Len(Get(response.data, "assets", << >>)) :
          Get(Get(response.data, "assets", << >>)[i], "name", None) # ASSET_NAME

\* C4: a successful metadata response without an asset named client.tar.xz
\* ends the run in an error that can be told from that of a failed metadata
\* request, with nothing downloaded and nothing written.
C4_AssetNotFoundDistinct ==
    NoAssetRun => /\ outcome # MetadataFailureOutcome
                  /\ exit_code # 0
                  /\ tmp_made = 0
                  /\ disk = disk0

\* C5 (as claimed): an existing file that does not parse is overwritten with
\* the new document and success is reported.
C5_UnparseableOverwritten ==
    (save_calls >= 1 /\ disk_pre.exists /\ "garbage" \in DOMAIN disk_pre.text)
      => /\ disk = File(JsonDump(update_db, JSON_INDENT))
         /\ exit_code = 0
         /\ LastLine = SavedLine

\* C5 (amended): an existing file that does not parse makes the save call raise
\* the parse error: nothing is written or printed, the file stays as it was and
\* the run ends with a non-zero exit status.
C5_UnparseableIsFatal ==
    (save_calls >= 1 /\ disk_pre.exists /\ "garbage" \in DOMAIN disk_pre.text)
      => /\ disk = disk_pre
         /\ raised = "JSONDecodeError"
         /\ exit_code # 0
         /\ stdout = << >>

C5_Witness ==
    /\ pc = "exit"
    /\ save_calls = 1
    /\ disk0.exists
    /\ "garbage" \in DOMAIN disk0.text
    /\ AllThreeOk
    /\ raised = "JSONDecodeError"

\* ---- C6
InCall == pc \in {"L64", "L65", "L66"}

\* C6: while a call of get_file_hash_and_size runs, exactly the one temporary
\* file it created exists; outside a call (after a return, after sys.exit,
\* after an exception) none exists; each call created one file.
C6_OneTempFileNoLeak ==
    /\ InCall => (DOMAIN tmpfs = {tmp_file} /\ tmp_file = tmp_made)
    /\ ~InCall => DOMAIN tmpfs = {}
    /\ Cardinality(DOMAIN tmpfs) <= 1
    /\ (InCall \/ pc \in {"L94", "L100"}) => tmp_made = (IF caller = ScriptPath THEN 1 ELSE 2)
    /\ pc \in {"L85", "L41", "L42", "L87", "L90", "L93"} => tmp_made = 0
    /\ pc = "L99" => tmp_made = 1
    /\ pc \in {"L104", "L141"} => tmp_made = 2

\* the second call dies on a failed write after part of the body was stored
C6_Witness ==
    /\ pc = "exit"
    /\ raised = "OSError"
    /\ tmp_made = 2
    /\ streamed > 0
    /\ DOMAIN tmpfs = {}

\* C7: what get_tag_and_latest_release_url returns is the browser_download_url
\* of the first asset named exactly client.tar.xz, paired with the response's
\* tag_name ("unknown" when the response has none).
C7_FirstExactAsset ==
    pc = "L87" =>
      LET assets == Get(response.data, "assets", << >>)
      IN \E i \in 1..Len(assets) :
            /\ "name" \in DOMAIN assets[i]
            /\ assets[i].name = ASSET_NAME
            /\ \A j \in 1..(i - 1) : "name" \in DOMAIN assets[j] => assets[j].name # ASSET_NAME
            /\ ret[1] = (IF "browser_download_url" \in DOMAIN assets[i]
                         THEN assets[i].browser_download_url ELSE None)
            /\ ret[2] = (IF "tag_name" \in DOMAIN response.data
                         THEN response.data.tag_name ELSE "unknown")

\* the matching asset is listed second, behind one whose name only starts alike
C7_Witness ==
    /\ pc = "L87"
    /\ response.data.assets[1] = [name |-> "client.tar.xz.sha256", browser_download_url |-> SigUrl]
    /\ ret = <<ClientUrlB, "v1.2.3">>

\* C8: the requests sent are a prefix of: metadata, script, client archive;
\* every request but the last one sent has succeeded; after a failure the save
\* is never reached.
C8_RequestsInOrder ==
    /\ Len(requests_log) <= 3
    /\ Len(requests_log) >= 1 => requests_log[1].url = GH_REPO_API_URL
    /\ Len(requests_log) >= 2 => requests_log[2].url = SCRIPT_RAW_URL
    /\ Len(requests_log) >= 3 => requests_log[3].url = client_download_url
    /\ \A i \in 1..(Len(requests_log) - 1) : requests_log[i].result = "ok"
    /\ FetchFailed => (pc # "L141" /\ save_calls = 0)

\* the script download breaks in mid-stream: the run ends after two requests
C8_Witness ==
    /\ pc = "exit"
    /\ Len(requests_log) = 2
    /\ requests_log[2].result = "error"
    /\ raised = "ChunkedEncodingError"

\* ---- C9
\* generate_update_db has returned
Returned == pc \in {"L104", "L141"} \/ save_calls > 0

\* the digest of a whole content absorbed at once
WholeHash(content) == HexDigest(HashUpdate(HashNew, content))

EntryOf(path, url, fetch) ==
    /\ GetItem(Entry(update_db, path), "url") = PyStr(url)
    /\ fetch.url = url
    /\ GetItem(Entry(update_db, path), "size") = PyInt(Len(fetch.body))
    /\ GetItem(Entry(update_db, path), "hash") = PyStr(WholeHash(fetch.body))
    /\ GetItem(Entry(update_db, path), "hash") # PyStr("")
    /\ GetItem(Entry(update_db, path), "url") # PyStr("")

\* C9: in a returned manifest the script entry holds the fixed script URL and
\* the size and hash of what the second request downloaded from it; the client
\* entry holds the resolved URL and the size and hash of what the third request
\* downloaded from it; no hash or url is left at its placeholder.
C9_EntriesMatchDownloads ==
    Returned => /\ EntryOf(ScriptPath, SCRIPT_RAW_URL, requests_log[2])
                /\ EntryOf(ClientPath, client_download_url, requests_log[3])

\* a three-byte script (two chunks) and an empty client archive
C9_Witness ==
    /\ pc = "L104"
    /\ requests_log[2].body = <<0, 1, 1>>
    /\ requests_log[3].body = << >>
    /\ client_download_url = ClientUrlB
    /\ GetItem(Entry(update_db, ClientPath), "size") = PyInt(0)

\* C10: from the template on, update_db differs from it only in the timestamp
\* and in the size, hash and url of the two entries; the files are the two
\* fixed paths; every tag id of an entry is a value of the tag dictionary.
C10_TemplateFrame ==
    pc # "L85" =>
      LET schema == get_update_db_schema
          tagdict == GetItem(update_db, "tags_dictionary").dict
      IN /\ DOMAIN update_db.dict = DOMAIN schema.dict
         /\ \A k \in DOMAIN schema.dict \ {"timestamp", "files"} : update_db.dict[k] = schema.dict[k]
         /\ DOMAIN GetItem(update_db, "files").dict = {ScriptPath, ClientPath}
         /\ \A p \in {ScriptPath, ClientPath} :
              /\ DOMAIN Entry(update_db, p).dict = DOMAIN Entry(schema, p).dict
              /\ \A k \in DOMAIN Entry(schema, p).dict \ {"size", "hash", "url"} :
                    Entry(update_db, p).dict[k] = Entry(schema, p).dict[k]
              /\ \A i \in 1..Len(GetItem(Entry(update_db, p), "tags").list) :
                    \E name \in DOMAIN tagdict :
                        tagdict[name] = GetItem(Entry(update_db, p), "tags").list[i]

\* a returned manifest with both entries filled
C10_Witness ==
    /\ pc = "L141"
    /\ GetItem(update_db, "timestamp") = PyInt(1700000001)
    /\ GetItem(Entry(update_db, ScriptPath), "size") = PyInt(3)
    /\ GetItem(Entry(update_db, ClientPath), "size") = PyInt(2)

====
